---- MODULE Spec2Model ----
(***************************************************************************)
(* A model of iatweets: crawl.py's main loop and get_conversation (the     *)
(* conversation walk under a request budget and a dedup cache), the tweet  *)
(* extraction and truncation check of tweet_tools.py, the header fix       *)
(* applied to re-emitted WARC records, the record parsers of               *)
(* warc_simple.py and parse_warc.py, and the rate-limit wait of            *)
(* retweever.py.                                                           *)
(*                                                                         *)
(* Python's None is modelled as 0 for ids, users and responses (ids and    *)
(* users are positive, and the code only tests them for truthiness).       *)
(* The Twitter API object is the `api` parameter of get_conversation: a     *)
(* fetch returns a response with a status code and a JSON body, as         *)
(* get_conversation reads it (response.status_code, response.json()).      *)
(***************************************************************************)
EXTENDS Integers, Sequences, FiniteSets, TLC

\* ------------------------------------------------------------------ bounds
MaxId == 2          \* tweet ids are 1..MaxId
MaxLimit == 2       \* --limit ranges over 0..MaxLimit
MaxRecords == 2     \* input records of a run, over all its files
MaxTextLen == 2     \* characters of a text in the truncation check
MaxHeaders == 2     \* header lines of a record in the header fix
MaxDepth == 3       \* tweets of a chain in the chain world
MaxLines == 5       \* lines of a file given to a parser, and of a payload
MaxTime == 4        \* seconds of the clock and of the rate limit's reset time

None == 0
Ids == 1..MaxId
OptIds == 0..MaxId
Files == {1, 2}

\* A tweet's author is determined by the tweet: user u(i) wrote tweet i.
UserOf(i) == IF i = None THEN None ELSE 10 + i

\* Characters of a text: an ordinary character and U+2026.
Ellipsis == "U2026"
Chars == {"a", Ellipsis}
RECURSIVE SeqsUpTo(_, _)
SeqsUpTo(S, n) ==
  IF n = 0 THEN {<<>>}
  ELSE LET shorter == SeqsUpTo(S, n - 1)
       IN shorter \cup {Append(s, c) : s \in {t \in shorter : Len(t) = n - 1}, c \in S}

Contains(text, c) == \E i \in 1..Len(text) : text[i] = c
EndsWith(text, c) == Len(text) > 0 /\ text[Len(text)] = c

\* ------------------------------------------------------------ tweet_tools
\* A JSON payload, by the keys the code looks at. The status fields (id,
\* texts, links) are those of the status object: the payload itself when it
\* has a 'user' key, payload['status'] otherwise.
Payload(hu, hs, hsn, i, hft, ft, tx, r, rt) ==
  [has_user |-> hu, has_status |-> hs, has_screen_name |-> hsn, id |-> i,
   has_full_text |-> hft, full_text |-> ft, text |-> tx,
   in_reply_to_status_id |-> r, retweeted_id |-> rt]

\* {} and None: the falsy tweet. 'keys' is the key set of the dict.
EmptyTweet ==
  [keys |-> {}, id |-> None, user |-> None, text |-> <<>>, is_profile |-> FALSE,
   in_reply_to_id |-> None, in_reply_to_user |-> None, retweeted_id |-> None]

TweetKeys == {"id", "user", "text", "is_profile", "in_reply_to_id",
              "in_reply_to_user", "retweeted_id"}

get_user_and_status(entry) ==
  IF entry.has_user THEN "status"
  ELSE IF entry.has_status THEN "profile"
  ELSE "none"

\* extract_tweet with empty_empties=True; datatype is "json_str" (a record's
\* payload) or "request" (an API response).
extract_tweet(entry, datatype) ==
  LET is_profile == entry.has_status /\ entry.has_screen_name
      kind == get_user_and_status(entry)
      text == IF datatype = "request"
                THEN (IF entry.has_full_text THEN entry.full_text ELSE <<>>)
              ELSE IF entry.has_full_text THEN entry.full_text
              ELSE entry.text
      user == IF kind = "status" THEN UserOf(entry.id)
              ELSE IF entry.has_screen_name THEN UserOf(entry.id) ELSE None
  IN IF kind = "none" THEN EmptyTweet
     ELSE [keys |-> TweetKeys, id |-> entry.id, user |-> user, text |-> text,
           is_profile |-> is_profile,
           in_reply_to_id |-> IF is_profile THEN None ELSE entry.in_reply_to_status_id,
           in_reply_to_user |-> IF is_profile THEN None
                                ELSE UserOf(entry.in_reply_to_status_id),
           retweeted_id |-> IF is_profile THEN None ELSE entry.retweeted_id]

\* The ellipsis looked for at the end of the text only.
does_tweet_look_truncated_at_end(tweet) ==
  IF "full_text" \in tweet.keys THEN FALSE
  ELSE EndsWith(tweet.text, Ellipsis)

does_tweet_look_truncated(tweet) ==
  IF "full_text" \in tweet.keys THEN FALSE
  ELSE Contains(tweet.text, Ellipsis)

get_tweet_url(user, id) == [user |-> user, id |-> id]

\* The text block of one conversation entry. 'raised' is the KeyError that
\* tweet['is_profile'] raises (and the except clause re-raises) on a tweet
\* without that key.
format_tweet_for_humans(tweet_data) ==
  LET tweet == tweet_data.tweet
  IN IF "is_profile" \notin tweet.keys
       THEN [raised |-> TRUE, kind |-> "none", id |-> None, text |-> <<>>,
             reply_to |-> None, replied_by |-> None, retweeted_by |-> None]
     ELSE IF tweet.is_profile
       THEN [raised |-> FALSE, kind |-> "profile", id |-> tweet.id, text |-> <<>>,
             reply_to |-> None, replied_by |-> None, retweeted_by |-> None]
     ELSE [raised |-> FALSE, kind |-> "tweet", id |-> tweet.id, text |-> tweet.text,
           reply_to |-> tweet.in_reply_to_id,
           replied_by |-> tweet_data.replied_by_id,
           retweeted_by |-> tweet_data.retweeted_by_id]

\* ------------------------------------------------------------------ crawl
\* One header line: name and value. headers_to_dict keeps, per name, the
\* value of its last line.
HeaderNames == {"WARC-Type", "WARC-Record-ID", "WARC-Warcinfo-ID"}
HeaderValues == {"v1", "v2"}
HeaderLine(n, v) == [name |-> n, value |-> v]

\* The marker line that opens a header block; headers_to_dict files it under
\* __VERSION__.
VersionLine == HeaderLine("__VERSION__", "WARC/1.0")
SampleHeaders == <<VersionLine, HeaderLine("WARC-Type", "v1")>>

\* Per name, the value of its first line: a later line of the name ignored.
headers_to_dict_first(headers) ==
  [n \in {headers[i].name : i \in 1..Len(headers)} |->
     LET first == CHOOSE i \in 1..Len(headers) :
                    /\ headers[i].name = n
                    /\ \A j \in 1..(i - 1) : headers[j].name # n
     IN headers[first].value]

headers_to_dict(headers) ==
  [n \in {headers[i].name : i \in 1..Len(headers)} |->
     LET last == CHOOSE i \in 1..Len(headers) :
                   /\ headers[i].name = n
                   /\ \A j \in (i + 1)..Len(headers) : headers[j].name # n
     IN headers[last].value]

\* The value uuid.uuid4() produces: unlike any value of the input.
Uuid4 == "uuid4"

XrefHeaders(tweet_data) ==
  LET reply == IF tweet_data.in_reply_to_id # None
                 THEN <<HeaderLine("WARC-X-Tweet-Reply-To", "url")>>
               ELSE IF tweet_data.tweet.keys # {} /\ tweet_data.tweet.in_reply_to_id # None
                 THEN <<HeaderLine("WARC-X-Tweet-Reply-To", "url")>>
               ELSE <<>>
      replied == IF tweet_data.replied_by_id # None
                   THEN <<HeaderLine("WARC-X-Tweet-Replied-By", "url")>> ELSE <<>>
      retweeted == IF tweet_data.retweeted_by_id # None
                     THEN <<HeaderLine("WARC-X-Tweet-Retweeted-By", "url")>> ELSE <<>>
  IN reply \o replied \o retweeted

\* The record id appended whether or not the block has one.
warc_header_fix_always(headers, headers_dict, warcinfo_id, has_data, tweet_data) ==
  LET h1 == IF has_data THEN headers \o XrefHeaders(tweet_data) ELSE headers
      h2 == IF warcinfo_id # "" /\ "WARC-Warcinfo-ID" \notin DOMAIN headers_dict
              THEN Append(h1, HeaderLine("WARC-Warcinfo-ID", warcinfo_id)) ELSE h1
  IN Append(h2, HeaderLine("WARC-Record-ID", Uuid4))

\* has_data is whether a tweet_data argument was given (the empty-entry call
\* passes none); warcinfo_id is "" when there is none.
warc_header_fix(headers, headers_dict, warcinfo_id, has_data, tweet_data) ==
  LET hd == IF DOMAIN headers_dict = {} THEN headers_to_dict(headers) ELSE headers_dict
      h1 == IF has_data THEN headers \o XrefHeaders(tweet_data) ELSE headers
      h2 == IF warcinfo_id # "" /\ "WARC-Warcinfo-ID" \notin DOMAIN hd
              THEN Append(h1, HeaderLine("WARC-Warcinfo-ID", warcinfo_id)) ELSE h1
  IN IF "WARC-Record-ID" \notin DOMAIN hd
       THEN Append(h2, HeaderLine("WARC-Record-ID", Uuid4)) ELSE h2

Entry(id, tweet, response, rb_id, rb_user, rtb_id, rtb_user) ==
  [id |-> id, tweet |-> tweet, response |-> response,
   in_reply_to_id |-> tweet.in_reply_to_id,
   in_reply_to_user |-> tweet.in_reply_to_user,
   replied_by_id |-> rb_id, replied_by_user |-> rb_user,
   retweeted_id |-> tweet.retweeted_id,
   retweeted_by_id |-> rtb_id, retweeted_by_user |-> rtb_user]

\* ------------------------------------------------------------ warc_simple
\* A string is a sequence of pieces: the texts of its lines and the line
\* terminator NL. The lines an input has:
NL == "\n"
Blank == ""
Marker == "WARC/1.0"
TypeRequest == "WARC-Type: request"
TypeResponse == "WARC-Type: response"
ContentLength == "Content-Length: 9"
Json == "{\"id\": 1}"
Junk == "junk"
HttpRequest == "GET /1.1/statuses/show.json HTTP/1.1"
HttpStatus == "HTTP/1.1 200 OK"

\* A line as the file iterator gives it: its text and its terminator.
LineStr(text) == IF text = Blank THEN <<NL>> ELSE <<text, NL>>

\* str.splitlines(): the lines of a string, each without its terminator.
RECURSIVE splitlines(_)
splitlines(s) ==
  IF s = <<>> THEN <<>>
  ELSE LET ends == {i \in 1..Len(s) : s[i] = NL}
           n == IF ends = {} THEN Len(s) + 1
                ELSE CHOOSE i \in ends : \A j \in ends : i <= j
       IN <<SubSeq(s, 1, n - 1)>> \o splitlines(SubSeq(s, n + 1, Len(s)))

\* The heuristic of lines 202-222, on the first piece of the line: a request
\* line is 'METHOD path HTTP/x', a status line 'HTTP/x status reason'.
looks_like_http_header(line, warc_type) ==
  IF warc_type = "request" THEN line[1] = HttpRequest
  ELSE IF warc_type = "response" THEN line[1] = HttpStatus
  ELSE FALSE

\* The loop of strip_http_headers from line k on. The first non-blank line
\* decides in_http_header and is itself passed over (the continue of line
\* 192); a kept line is added without its terminator.
RECURSIVE StripLines(_, _, _, _, _, _)
StripLines(lines, k, warc_type, first_line, in_http_header, new_payload) ==
  IF k > Len(lines) THEN new_payload
  ELSE LET line == lines[k] IN
    IF first_line
      THEN IF line # <<>>
             THEN StripLines(lines, k + 1, warc_type, FALSE,
                             looks_like_http_header(line, warc_type), new_payload)
           ELSE StripLines(lines, k + 1, warc_type, TRUE, in_http_header, new_payload)
    ELSE IF in_http_header
      THEN StripLines(lines, k + 1, warc_type, FALSE, line # <<>>, new_payload)
    ELSE StripLines(lines, k + 1, warc_type, FALSE, FALSE, new_payload \o line)

strip_http_headers(payload, warc_type) ==
  StripLines(splitlines(payload), 1, warc_type, TRUE, FALSE, <<>>)

\* json.loads: a string is parsed when it holds one JSON text and, around
\* it, nothing but white space; any other string raises ValueError.
ParsesAsJson(content) == SelectSeq(content, LAMBDA piece : piece # NL) = <<Json>>

\* A header line split at its colons (lines 170-177). The marker line has no
\* colon and is filed under __VERSION__; a line without a name is any other
\* line with no colon.
NoName == ""
header_line(text) ==
  IF text = Marker THEN VersionLine
  ELSE IF text = TypeRequest THEN HeaderLine("WARC-Type", "request")
  ELSE IF text = TypeResponse THEN HeaderLine("WARC-Type", "response")
  ELSE IF text = ContentLength THEN HeaderLine("Content-Length", "9")
  ELSE IF text = Json THEN HeaderLine("{\"id\"", "1}")
  ELSE HeaderLine(NoName, text)

\* The assert of line 174 left out.
headers_to_dict_never_asserts(headers) == FALSE
\* The assert of line 174 fails: some line has fewer than two fields.
headers_to_dict_asserts(headers) ==
  \E i \in 1..Len(headers) : headers[i].name = NoName

\* The unparseable payload turned into an empty object.
json_loads_or_empty(content) ==
  IF ParsesAsJson(content)
    THEN [raised |-> FALSE, kind |-> "json", text |-> content]
  ELSE [raised |-> FALSE, kind |-> "empty_object", text |-> <<>>]
\* Lines 147-154: the payload of a record in JSON mode.
json_loads(content) ==
  IF ParsesAsJson(content)
    THEN [raised |-> FALSE, kind |-> "json", text |-> content]
  ELSE [raised |-> TRUE, kind |-> "none", text |-> <<>>]

\* What parse yields for a record: 'raised' is the ValueError of json.loads
\* or the AssertionError of headers_to_dict, which ends the generator.
create_return_data(content, headers, warc_type, payload_json, omit_headers, header_dict) ==
  LET stripped == IF warc_type \in {"request", "response"}
                    THEN strip_http_headers(content, warc_type) ELSE content
      payload == IF ~payload_json
                   THEN [raised |-> FALSE, kind |-> "str", text |-> content]
                 ELSE IF stripped # <<>> THEN json_loads(stripped)
                 ELSE [raised |-> FALSE, kind |-> "empty_object", text |-> <<>>]
      lines == [i \in 1..Len(headers) |-> header_line(headers[i])]
  IN IF payload.raised
       THEN [raised |-> TRUE, error |-> "ValueError", payload |-> payload,
             headers |-> "none", lines |-> <<>>, dict |-> <<>>]
     ELSE IF omit_headers
       THEN [raised |-> FALSE, error |-> "none", payload |-> payload,
             headers |-> "omitted", lines |-> <<>>, dict |-> <<>>]
     ELSE IF ~header_dict
       THEN [raised |-> FALSE, error |-> "none", payload |-> payload,
             headers |-> "str", lines |-> lines, dict |-> <<>>]
     ELSE IF headers_to_dict_asserts(lines)
       THEN [raised |-> TRUE, error |-> "AssertionError", payload |-> payload,
             headers |-> "none", lines |-> <<>>, dict |-> <<>>]
     ELSE [raised |-> FALSE, error |-> "none", payload |-> payload,
           headers |-> "dict", lines |-> <<>>, dict |-> headers_to_dict(lines)]

\* --------------------------------------------------------------- the state
VARIABLES
  world,         \* the world of the behaviour: the input and the API it draws from
  args,          \* the options: format, parse_tweets, dedup, limit, no_warcinfo
  pc,            \* where main is: "file", "record", "walk", "render", "done", "crashed"
  file_num,      \* main's file_num
  rec_num,       \* records read of the current file
  entry_num,     \* main's entry_num
  api_requests,  \* main's api_requests
  done,          \* main's done: the ids of the dedup cache
  seed,          \* the current record: tweet, is_profile, use_original
  walk,          \* get_conversation's locals
  output,        \* what the current record has written to the output
  warnings,      \* the warnings the current record has logged
  fetched,       \* per id, the number of GetStatus calls of the run
  written,       \* the number of input records whose output is complete
  reused,        \* the ids written to the output as the entry of a reused seed
  fn,            \* a function applied on its own: its name, argument and result
  decoder        \* a record parser run on its own: its file, its locals, what it has yielded

vars == <<world, args, pc, file_num, rec_num, entry_num, api_requests, done, seed,
          walk, output, warnings, fetched, written, reused, fn, decoder>>
\* The variables of main.
mainvars == <<world, args, pc, file_num, rec_num, entry_num, api_requests, done, seed,
              walk, output, warnings, fetched, written, reused>>

\* The texts of the input records of a run.
SeedTexts == {<<"a">>, <<"a", Ellipsis>>}
\* The text of an API response (extended mode: the full text).
FetchedText == <<"a", "a">>

\* A status payload of the input.
StatusPayload(i, hft, tx, r, rt) == Payload(TRUE, FALSE, FALSE, i, hft, tx, tx, r, rt)
\* A payload that is neither a status nor a profile.
NoBody == Payload(FALSE, FALSE, FALSE, None, FALSE, <<>>, <<>>, None, None)
\* The body of a successful API response: the status with that id.
StatusBody(i, r, rt) == Payload(TRUE, FALSE, FALSE, i, TRUE, FetchedText, <<>>, r, rt)

\* Reply and retweet links: any pair, and the pairs of the dataset, where a
\* tweet never has both (the comment at lines 403-404).
AnyLinks == OptIds \X OptIds
DatasetLinks == {l \in AnyLinks : l[1] = None \/ l[2] = None}

\* The chains of the chain world: tweet i replies to or retweets tweet i + 1,
\* and the last tweet has no ancestor.
Chains == SeqsUpTo({"reply", "retweet"}, MaxDepth - 1)
ChainLinks(links, i) ==
  IF i > Len(links) THEN <<None, None>>
  ELSE IF links[i] = "reply" THEN <<i + 1, None>>
  ELSE <<None, i + 1>>

\* The worlds a behaviour runs in: "run" is a whole run over dataset-shaped
\* input, "walk" is a run of one record with any links, "chain" is a run of
\* one record that heads an acyclic chain all of whose fetches succeed,
\* "call" is one call of get_conversation with any arguments.
World(kind, links, records) == [kind |-> kind, links |-> links, records |-> records]

\* The payloads of the input records: statuses, a profile wrapping a status,
\* and a payload that is neither.
SeedPayloads ==
  IF world.kind = "chain"
    THEN {StatusPayload(1, hft, tx, ChainLinks(world.links, 1)[1],
                        ChainLinks(world.links, 1)[2]) :
            hft \in BOOLEAN, tx \in SeedTexts}
  ELSE {StatusPayload(i, hft, tx, l[1], l[2]) :
          i \in Ids, hft \in BOOLEAN, tx \in SeedTexts,
          l \in IF world.kind = "run" THEN DatasetLinks ELSE AnyLinks}
       \cup {Payload(FALSE, TRUE, TRUE, i, FALSE, <<>>, <<"a">>, None, None) : i \in Ids}
       \cup {NoBody}

\* What api.GetStatus(id) can return: a status code and, with 200, a body
\* that is the status with that id or a body extract_tweet makes nothing of.
\* In the walk and call worlds an error response can carry any body, a
\* status too.
Response(code, body) == [status_code |-> code, body |-> body]
GetStatus(id) ==
  IF world.kind = "chain"
    THEN {Response(200, StatusBody(id, ChainLinks(world.links, id)[1],
                                   ChainLinks(world.links, id)[2]))}
  ELSE {Response(404, NoBody), Response(200, NoBody)}
       \cup {Response(200, StatusBody(id, l[1], l[2])) :
               l \in IF world.kind = "run" THEN DatasetLinks ELSE AnyLinks}
       \cup (IF world.kind \in {"walk", "call"}
               THEN {Response(404, StatusBody(id, l[1], l[2])) : l \in AnyLinks}
             ELSE {})

\* The body read whatever the status code.
FetchedTweetAnyStatus(response) == extract_tweet(response.body, "request")
\* Lines 367-374: the item of a response; none unless the status is 200.
FetchedTweet(response) ==
  IF response.status_code = 200 THEN extract_tweet(response.body, "request")
  ELSE EmptyTweet

\* The records of the input, as parse hands them to main: a payload that is
\* a JSON text or is not, a header block whose lines all have a colon or not
\* (the worlds of one record have well-formed input).
Entries == IF world.kind = "run" THEN {LineStr(Json), LineStr(Junk)} ELSE {LineStr(Json)}
HeaderStrings ==
  IF world.kind = "run"
    THEN {<<Marker, TypeResponse>>, <<Marker, TypeResponse, Junk>>}
  ELSE {<<Marker, TypeResponse>>}
HeaderLines(headers) == [i \in 1..Len(headers) |-> header_line(headers[i])]

NoSeed == [tweet |-> EmptyTweet, is_profile |-> FALSE, use_original |-> FALSE]
NoWalk == [conversation |-> <<>>, id |-> None, remaining |-> 0, running |-> FALSE,
           done |-> {},
           replied_by_id |-> None, replied_by_user |-> None,
           retweeted_by_id |-> None, retweeted_by_user |-> None]

\* The options of a run; --no-warcinfo is off unless given.
Configs ==
  [format : {"human", "warc"}, parse_tweets : BOOLEAN, dedup : BOOLEAN,
   limit : 0..MaxLimit, no_warcinfo : {FALSE}]

InitRun ==
  /\ pc = "file"
  /\ file_num = 0
  /\ rec_num = 0
  /\ entry_num = 0
  /\ api_requests = 0
  /\ done = {}
  /\ seed = NoSeed
  /\ walk = NoWalk
  /\ output = <<>>
  /\ warnings = <<>>
  /\ fetched = [i \in 1..(IF MaxId > MaxDepth THEN MaxId ELSE MaxDepth) |-> 0]
  /\ written = 0
  /\ reused = {}
  /\ fn = [op |-> "none"]
  /\ decoder = [parser |-> "none"]

Init ==
  /\ world = World("run", <<>>, MaxRecords)
  /\ args \in Configs
  /\ InitRun

\* One record, any links, any option but parse-only.
InitWalk ==
  /\ world = World("walk", <<>>, 1)
  /\ args \in {c \in Configs : ~c.parse_tweets}
  /\ InitRun

\* One record, read with --no-warcinfo given.
InitNoWarcinfo ==
  /\ world = World("run", <<>>, 1)
  /\ args \in {[c EXCEPT !.no_warcinfo = TRUE] : c \in Configs}
  /\ InitRun

\* One record at the head of a chain, with a budget up to one more than the
\* longest chain.
InitChain ==
  /\ world \in {World("chain", links, 1) : links \in Chains}
  /\ args \in [format : {"human", "warc"}, parse_tweets : {FALSE}, dedup : BOOLEAN,
               limit : 0..(MaxDepth + 1), no_warcinfo : {FALSE}]
  /\ InitRun

\* ------------------------------------------------------------ main's loop
WarcinfoId == "warcinfo-id"

\* The loops never left on the limit.
LimitNeverReached(n, limit) == FALSE
\* Lines 210-214: both loops are left once api_requests has reached --limit.
LimitReached(n, limit) == n >= limit
AfterRecord(n) == IF LimitReached(n, args.limit) THEN "done" ELSE "record"

\* An exception main handled by going on to the next file.
CaughtPerFile(error) == "file"
\* An exception raised in the loop body (extract_tweet's ValueError at line
\* 118, headers_to_dict's AssertionError at line 119) is caught nowhere: it
\* leaves main.
Uncaught(error) == "crashed"

\* A reused seed only when not truncated, profile or not.
UseOriginalNotProfile(is_profile, looks_truncated) == ~looks_truncated
\* Line 146.
UseOriginal(is_profile, looks_truncated) == is_profile \/ ~looks_truncated

\* remaining=None, the default of get_conversation's parameter: an integer
\* budget is never negative, and -1 stands for None.
NoBudget == -1
\* A fetch allowed with no budget left.
CanFetchAtZero(remaining) == remaining >= 0
\* Line 360: remaining is None or remaining > 0 (main passes the integer
\* args.limit - api_requests).
CanFetch(remaining) == remaining = NoBudget \/ remaining > 0
\* The cache never consulted.
AlreadyDoneNever(id, done_ids) == FALSE
\* Line 357.
AlreadyDone(id, done_ids) == id \in done_ids
\* Line 368.
MarkDone(id, done_ids, status_code) ==
  IF status_code = 200 THEN done_ids \cup {id} ELSE done_ids
\* main's dict written by every walk.
DoneOfMainAlways(dedup, done_ids, walk_done) == walk_done
\* Lines 151-158 and 332-335: with --dedup the walk is given main's dict and
\* writes into it; without, it is given none and writes into one of its own.
DoneOfMain(dedup, done_ids, walk_done) == IF dedup THEN walk_done ELSE done_ids
\* The budget tested before the cache.
WalkCheckBudgetFirst(id, done_ids, remaining) ==
  IF ~CanFetch(remaining) THEN "limit"
  ELSE IF AlreadyDone(id, done_ids) THEN "done"
  ELSE "fetch"
\* Lines 357-366: the cache, then the budget, then the fetch.
WalkCheck(id, done_ids, remaining) ==
  IF AlreadyDone(id, done_ids) THEN "done"
  ELSE IF CanFetch(remaining) THEN "fetch"
  ELSE "limit"
\* Line 405: id = in_reply_to_id or retweeted_id.
NextId(tweet) ==
  IF tweet.in_reply_to_id # None THEN tweet.in_reply_to_id ELSE tweet.retweeted_id
\* Line 349: the id after a reused seed.
NextIdAfterOriginal(tweet) == tweet.in_reply_to_id

\* The for loop over args.warcs, lines 105-115.
StartFile ==
  /\ pc = "file"
  /\ file_num < Cardinality(Files)
  /\ file_num' = file_num + 1
  /\ rec_num' = 0
  /\ output' = IF args.format = "warc" THEN <<[kind |-> "warcinfo", id |-> None]>> ELSE <<>>
  /\ pc' = "record"
  /\ UNCHANGED <<fn, decoder, reused, world, args, entry_num, api_requests, done, seed, walk,
                 warnings, fetched, written>>

\* The file loop ends: lines 215-218, and main returns.
EndOfInput ==
  /\ pc = "file"
  /\ file_num = Cardinality(Files)
  /\ pc' = "done"
  /\ UNCHANGED <<fn, decoder, reused, world, args, file_num, rec_num, entry_num, api_requests, done, seed,
                 walk, output, warnings, fetched, written>>

\* warc_simple.parse has no more records of this file (a file holds any
\* number of records).
EndFile ==
  /\ pc = "record"
  /\ pc' = "file"
  /\ UNCHANGED <<fn, decoder, reused, world, args, file_num, rec_num, entry_num, api_requests, done, seed,
                 walk, output, warnings, fetched, written>>

\* get_conversation up to its loop, lines 332-355.
StartConversation(tweet, use_original, remaining, done_ids) ==
  [conversation |-> IF use_original
                      THEN <<Entry(tweet.id, tweet, None, None, None, None, None)>>
                    ELSE <<>>,
   id |-> IF use_original THEN NextIdAfterOriginal(tweet) ELSE tweet.id,
   remaining |-> remaining, running |-> TRUE, done |-> done_ids,
   replied_by_id |-> None, replied_by_user |-> None,
   retweeted_by_id |-> None, retweeted_by_user |-> None]

\* One record of the input, lines 116-158: an empty entry and a parse-only
\* entry are written at once, any other starts a conversation.
ReadRecord ==
  /\ pc = "record"
  /\ entry_num < world.records
  /\ \E entry \in Entries, headers \in HeaderStrings,
        payload \in SeedPayloads, is_profile \in BOOLEAN :
       LET extracted == extract_tweet(payload, "json_str")
           tweet == IF extracted.keys # {}
                      THEN [extracted EXCEPT !.is_profile = is_profile] ELSE extracted
           headers_dict == headers_to_dict(SampleHeaders)
           tweet_data == Entry(tweet.id, tweet, None, None, None, None, None)
           looks_truncated == does_tweet_look_truncated(tweet)
           use_original == UseOriginal(is_profile, looks_truncated)
       IN /\ rec_num' = rec_num + 1
          /\ entry_num' = entry_num + 1
          /\ IF ~ParsesAsJson(entry)
               THEN /\ warnings' = <<[kind |-> "critical", id |-> None],
                                     [kind |-> "ValueError", id |-> None]>>
                    /\ output' = <<>>
                    /\ pc' = Uncaught("ValueError")
                    /\ UNCHANGED <<seed, walk, written>>
             ELSE IF headers_to_dict_asserts(HeaderLines(headers))
               THEN /\ warnings' = <<[kind |-> "AssertionError", id |-> None]>>
                    /\ output' = <<>>
                    /\ pc' = Uncaught("AssertionError")
                    /\ UNCHANGED <<seed, walk, written>>
             ELSE IF tweet.keys = {}
               THEN /\ warnings' = <<>>
                    /\ output' =
                         IF args.format = "human"
                           THEN <<[kind |-> "empty", id |-> None]>>
                         ELSE <<[kind |-> "original", id |-> None,
                                 headers |-> warc_header_fix(SampleHeaders, headers_dict,
                                                             WarcinfoId, FALSE, tweet_data)]>>
                    /\ written' = written + 1
                    /\ pc' = AfterRecord(api_requests)
                    /\ UNCHANGED <<seed, walk>>
             ELSE IF args.parse_tweets
               THEN /\ warnings' = <<>>
                    /\ output' =
                         IF args.format = "human"
                           THEN <<format_tweet_for_humans(tweet_data)>>
                         ELSE <<[kind |-> "original", id |-> tweet.id,
                                 headers |-> warc_header_fix(SampleHeaders, headers_dict,
                                                             WarcinfoId, TRUE, tweet_data)]>>
                    /\ written' = written + 1
                    /\ pc' = AfterRecord(api_requests)
                    /\ UNCHANGED <<seed, walk>>
             ELSE /\ warnings' = <<>>
                  /\ seed' = [tweet |-> tweet, is_profile |-> is_profile,
                              use_original |-> use_original]
                  /\ walk' = StartConversation(tweet, use_original,
                                               args.limit - api_requests,
                                               IF args.dedup THEN done ELSE {})
                  /\ output' = <<>>
                  /\ pc' = "walk"
                  /\ UNCHANGED written
  /\ UNCHANGED <<fn, decoder, reused, world, args, file_num, api_requests, done, fetched>>

\* One pass of get_conversation's while loop, lines 356-405. With
\* remaining=None the fetch is made and `remaining -= 1` (line 362) raises
\* a TypeError, which nothing catches.
WalkStep ==
  /\ pc = "walk"
  /\ walk.running
  /\ walk.id # None
  /\ LET id == walk.id
         check == WalkCheck(id, walk.done, walk.remaining) IN
       IF check = "done"
         THEN /\ walk' = [walk EXCEPT !.running = FALSE]
              /\ UNCHANGED <<pc, done, fetched, warnings>>
       ELSE IF check = "limit"
         THEN /\ walk' = [walk EXCEPT !.running = FALSE]
              /\ warnings' = Append(warnings, [kind |-> "limit", id |-> id])
              /\ UNCHANGED <<pc, done, fetched>>
       ELSE IF walk.remaining = NoBudget
         THEN /\ fetched' = [fetched EXCEPT ![id] = @ + 1]
              /\ warnings' = Append(warnings, [kind |-> "TypeError", id |-> id])
              /\ pc' = Uncaught("TypeError")
              /\ UNCHANGED <<walk, done>>
       ELSE \E response \in GetStatus(id) :
              LET tweet == FetchedTweet(response)
                  done_ids == MarkDone(id, walk.done, response.status_code)
                  entry == Entry(id, tweet, response.status_code,
                                 walk.replied_by_id, walk.replied_by_user,
                                 walk.retweeted_by_id, walk.retweeted_by_user)
                  replies == tweet.in_reply_to_id # None
                  retweets == tweet.retweeted_id # None
              IN /\ fetched' = [fetched EXCEPT ![id] = @ + 1]
                 /\ done' = DoneOfMain(args.dedup, done, done_ids)
                 /\ walk' =
                      IF tweet.keys = {}
                        THEN [walk EXCEPT !.conversation = Append(@, entry),
                                          !.remaining = @ - 1,
                                          !.done = done_ids,
                                          !.running = FALSE]
                      ELSE [walk EXCEPT !.conversation = Append(@, entry),
                                        !.remaining = @ - 1,
                                        !.done = done_ids,
                                        !.replied_by_id = IF replies THEN id ELSE None,
                                        !.replied_by_user = IF replies THEN tweet.user ELSE None,
                                        !.retweeted_by_id = IF retweets THEN id ELSE None,
                                        !.retweeted_by_user = IF retweets THEN tweet.user ELSE None,
                                        !.id = NextId(tweet)]
                 /\ UNCHANGED <<pc, warnings>>
  /\ UNCHANGED <<fn, decoder, reused, world, args, file_num, rec_num, entry_num, api_requests, seed,
                 output, written>>

\* The first entry never counted, reused or not.
RequestsOfLessOne(conversation, use_original) == Len(conversation) - 1
\* Lines 159-161: the requests a conversation has cost.
RequestsOf(conversation, use_original) ==
  Len(conversation) - (IF use_original THEN 1 ELSE 0)

\* write_warcs, lines 275-280: the request record, then the response record
\* whose id the request's WARC-Concurrent-To names.
write_warcs(tweet_data, record_id) ==
  <<[kind |-> "request", id |-> tweet_data.id, concurrent_to |-> record_id],
    [kind |-> "response", id |-> tweet_data.id, record_id |-> record_id,
     status_code |-> tweet_data.response]>>

\* The record of the input written again, its headers fixed: lines 178-180
\* and 194-196.
OriginalRecord(tweet, tweet_data) ==
  [kind |-> "original", id |-> tweet.id, text |-> tweet.text,
   headers |-> warc_header_fix(SampleHeaders, headers_to_dict(SampleHeaders),
                               WarcinfoId, TRUE, tweet_data)]

get_api_error(tweet_data) ==
  [kind |-> "api_error", id |-> tweet_data.id, status_code |-> tweet_data.response]

\* The loop that prints the conversation, lines 169-205, from entry k on:
\* what it writes and logs, and whether format_tweet_for_humans raised.
RECURSIVE PrintConversation(_, _, _, _, _, _, _)
PrintConversation(conversation, k, tweet, use_original, format, out, warns) ==
  IF k > Len(conversation) THEN [output |-> out, warnings |-> warns, raised |-> FALSE]
  ELSE
    LET tweet_data == conversation[k]
        first == (k = 1)
        text == format_tweet_for_humans(tweet_data)
        Go(records, logged) ==
          PrintConversation(conversation, k + 1, tweet, use_original, format,
                            out \o records, warns \o logged)
        Raise == [output |-> out, warnings |-> warns, raised |-> TRUE]
    IN IF use_original
         THEN IF format = "human"
                THEN (IF text.raised THEN Raise ELSE Go(<<text>>, <<>>))
              ELSE Go(<<OriginalRecord(tweet, tweet_data)>>, <<>>)
       ELSE IF tweet_data.response = 200
         THEN IF format = "human"
                THEN (IF text.raised THEN Raise ELSE Go(<<text>>, <<>>))
              ELSE Go(write_warcs(tweet_data, k), <<>>)
       ELSE IF first
         THEN IF format = "human"
                THEN (IF text.raised THEN Raise ELSE Go(<<text>>, <<>>))
              ELSE Go(<<OriginalRecord(tweet, tweet_data)>>, <<get_api_error(tweet_data)>>)
       ELSE IF format = "human"
         THEN Go(<<>>, <<get_api_error(tweet_data)>>)
       ELSE Go(write_warcs(tweet_data, k), <<get_api_error(tweet_data)>>)

\* get_conversation returns: main counts its requests, prints the
\* conversation and tests the limit, lines 159-214.
FinishRecord ==
  /\ pc = "walk"
  /\ ~walk.running \/ walk.id = None
  /\ LET conversation == walk.conversation
         requests == api_requests + RequestsOf(conversation, seed.use_original)
         no_tweets == IF seed.tweet.in_reply_to_id = None /\ Len(conversation) = 0
                        THEN <<[kind |-> "no_tweets", id |-> seed.tweet.id]>>
                      ELSE <<>>
         printed == PrintConversation(conversation, 1, seed.tweet, seed.use_original,
                                      args.format, output, warnings \o no_tweets)
     IN /\ api_requests' = requests
        /\ warnings' = printed.warnings
        /\ reused' = IF seed.use_original THEN reused \cup {seed.tweet.id} ELSE reused
        /\ IF printed.raised
             THEN /\ output' = printed.output
                  /\ pc' = "crashed"
                  /\ UNCHANGED written
           ELSE /\ output' = Append(printed.output, [kind |-> "separator", id |-> None])
                /\ written' = written + 1
                /\ pc' = AfterRecord(requests)
  /\ UNCHANGED <<fn, decoder, world, args, file_num, rec_num, entry_num, done, seed, walk, fetched>>

\* ------------------------------------------------------- the parsers run
\* The calls of parse in the repository: warc_simple.main (line 69, with and
\* without --json), crawl.main (line 116) and tweet_tools.main (line 57).
ParseCalls ==
  {[payload_json |-> j, header_dict |-> FALSE, omit_headers |-> TRUE] : j \in BOOLEAN}
  \cup {[payload_json |-> FALSE, header_dict |-> FALSE, omit_headers |-> FALSE],
        [payload_json |-> TRUE, header_dict |-> TRUE, omit_headers |-> FALSE]}

\* The lines of a file given to parse, and of a file given to parse_warc.
DecodeLines == {Marker, TypeResponse, Blank, Json, Junk, HttpStatus}
ParseWarcLines == {Marker, ContentLength, Blank, Json, Junk}

\* parse before its loop, lines 106-109. 'lines' is what has been read of
\* the file, 'out' what has been yielded.
NewParse(call) ==
  [parser |-> "warc_simple", call |-> call, lines |-> <<>>, status |-> "running",
   error |-> "none", out |-> <<>>, headers |-> <<>>, content |-> <<>>,
   warc_type |-> "None", header |-> FALSE]

\* Lines 132-133 and 139-140: the record read so far is yielded if it has
\* content; an exception in create_return_data ends the generator.
Flush(d) ==
  IF d.content = <<>> THEN d
  ELSE LET r == create_return_data(d.content, d.headers, d.warc_type, d.call.payload_json,
                                   d.call.omit_headers, d.call.header_dict)
       IN IF r.raised THEN [d EXCEPT !.status = "raised", !.error = r.error]
          ELSE [d EXCEPT !.out = Append(@, r)]

\* A marker line opening a record wherever it is read.
OpensRecordAnywhere(line, header) == line = Marker
\* Lines 112 and 123-130: a line is tested for the marker only outside a
\* header block, and a marker line found there opens a record.
OpensRecord(line, header) == ~header /\ line = Marker

\* One pass of parse's loop over the lines of the file, lines 111-138.
DecodeLine ==
  /\ decoder.parser = "warc_simple"
  /\ decoder.status = "running"
  /\ Len(decoder.lines) < MaxLines
  /\ \E line \in DecodeLines :
       LET d == [decoder EXCEPT !.lines = Append(@, line)] IN
       decoder' =
         IF OpensRecord(line, d.header)
           THEN LET flushed == Flush(d)
                IN IF flushed.status = "raised" THEN flushed
                   ELSE [flushed EXCEPT !.header = TRUE, !.warc_type = "None",
                                        !.headers = <<line>>, !.content = <<>>]
         ELSE IF d.header
           THEN IF line = Blank THEN [d EXCEPT !.header = FALSE]
                ELSE [d EXCEPT !.headers = Append(@, line),
                               !.warc_type = IF line = TypeResponse THEN "response"
                                             ELSE IF line = TypeRequest THEN "request"
                                             ELSE @]
         ELSE [d EXCEPT !.content = @ \o LineStr(line)]
  /\ UNCHANGED <<mainvars, fn>>

\* The file is at its end: lines 139-140.
DecodeEnd ==
  /\ decoder.parser = "warc_simple"
  /\ decoder.status = "running"
  /\ LET flushed == Flush(decoder)
     IN decoder' = IF flushed.status = "raised" THEN flushed
                   ELSE [flushed EXCEPT !.status = "finished"]
  /\ UNCHANGED <<mainvars, fn>>

\* ------------------------------------------------------------- parse_warc
NewParseWarc ==
  [parser |-> "parse_warc", lines |-> <<>>, status |-> "running", error |-> "none",
   out |-> <<>>, tweet_json |-> <<>>, header |-> FALSE]

\* One pass of parse_warc's loop, lines 22-35.
ParseWarcLine ==
  /\ decoder.parser = "parse_warc"
  /\ decoder.status = "running"
  /\ Len(decoder.lines) < MaxLines
  /\ \E line \in ParseWarcLines :
       LET d == [decoder EXCEPT !.lines = Append(@, line)] IN
       decoder' =
         IF d.header
           THEN IF line = ContentLength THEN [d EXCEPT !.header = FALSE] ELSE d
         ELSE IF line = Marker
           THEN IF d.tweet_json = <<>> THEN [d EXCEPT !.header = TRUE]
                ELSE LET tweet == json_loads(d.tweet_json)
                     IN IF tweet.raised
                          THEN [d EXCEPT !.status = "raised", !.error = "ValueError"]
                        ELSE [d EXCEPT !.header = TRUE, !.out = Append(@, tweet),
                                       !.tweet_json = <<>>]
         ELSE [d EXCEPT !.tweet_json = @ \o LineStr(line)]
  /\ UNCHANGED <<mainvars, fn>>

\* The file is at its end: the loop is left and the generator returns.
ParseWarcEnd ==
  /\ decoder.parser = "parse_warc"
  /\ decoder.status = "running"
  /\ decoder' = [decoder EXCEPT !.status = "finished"]
  /\ UNCHANGED <<mainvars, fn>>

\* ------------------------------------------- functions applied on their own

InitIdle ==
  /\ world = World("none", <<>>, 0)
  /\ args = [format |-> "human", parse_tweets |-> FALSE, dedup |-> FALSE, limit |-> 0,
             no_warcinfo |-> FALSE]
  /\ pc = "done"
  /\ file_num = 0
  /\ rec_num = 0
  /\ entry_num = 0
  /\ api_requests = 0
  /\ done = {}
  /\ seed = NoSeed
  /\ walk = NoWalk
  /\ output = <<>>
  /\ warnings = <<>>
  /\ fetched = [i \in Ids |-> 0]
  /\ written = 0
  /\ reused = {}

\* The truncation check of a record's payload, as main makes it: lines 118
\* and 143 of crawl.py.
Texts == SeqsUpTo(Chars, MaxTextLen)
TruncPayloads ==
  {StatusPayload(i, FALSE, tx, None, None) : i \in Ids, tx \in Texts}
  \cup {Payload(TRUE, FALSE, FALSE, i, TRUE, ft, tx, None, None) :
          i \in Ids, ft \in Texts, tx \in Texts}

InitTrunc ==
  /\ InitIdle
  /\ decoder = [parser |-> "none"]
  /\ fn \in {[op |-> "payload", arg |-> p, result |-> FALSE] : p \in TruncPayloads}

LooksTruncated ==
  /\ fn.op = "payload"
  /\ fn' = [op |-> "looks_truncated", arg |-> fn.arg,
            result |-> does_tweet_look_truncated(extract_tweet(fn.arg, "json_str"))]
  /\ UNCHANGED <<mainvars, decoder>>

NextTrunc == LooksTruncated
SpecTrunc == InitTrunc /\ [][NextTrunc]_vars

\* warc_header_fix on a header block of the input: the marker line and up
\* to MaxHeaders header lines, with or without a warcinfo id and tweet data.
HeaderBlocks ==
  {<<VersionLine>> \o h :
     h \in SeqsUpTo({HeaderLine(n, v) : n \in HeaderNames, v \in HeaderValues}, MaxHeaders)}
LinkedTweet(r) ==
  [keys |-> TweetKeys, id |-> 1, user |-> UserOf(1), text |-> <<"a">>,
   is_profile |-> FALSE, in_reply_to_id |-> r, in_reply_to_user |-> UserOf(r),
   retweeted_id |-> None]
FixData ==
  {Entry(1, LinkedTweet(r), None, rb, UserOf(rb), rtb, UserOf(rtb)) :
     r \in {None, 2}, rb \in {None, 2}, rtb \in {None, 2}}
FixArgs ==
  [headers : HeaderBlocks, warcinfo_id : {"", WarcinfoId}, has_data : {TRUE},
   tweet_data : FixData]
  \cup [headers : HeaderBlocks, warcinfo_id : {"", WarcinfoId}, has_data : {FALSE},
        tweet_data : {Entry(None, EmptyTweet, None, None, None, None, None)}]

InitHeaderFix ==
  /\ InitIdle
  /\ decoder = [parser |-> "none"]
  /\ fn \in {[op |-> "headers", arg |-> a, result |-> <<>>] : a \in FixArgs}

HeaderFix ==
  /\ fn.op = "headers"
  /\ fn' = [op |-> "warc_header_fix", arg |-> fn.arg,
            result |-> warc_header_fix(fn.arg.headers, headers_to_dict(fn.arg.headers),
                                       fn.arg.warcinfo_id, fn.arg.has_data,
                                       fn.arg.tweet_data)]
  /\ UNCHANGED <<mainvars, decoder>>

NextHeaderFix == HeaderFix
SpecHeaderFix == InitHeaderFix /\ [][NextHeaderFix]_vars

\* strip_http_headers on the payload of a request or response record: up to
\* MaxLines lines, with or without an HTTP message at its head.
PayloadLines == {Blank, Json, Junk, HttpRequest, HttpStatus, ContentLength}
RECURSIVE JoinLines(_)
JoinLines(lines) ==
  IF lines = <<>> THEN <<>> ELSE LineStr(Head(lines)) \o JoinLines(Tail(lines))

InitStrip ==
  /\ InitIdle
  /\ decoder = [parser |-> "none"]
  /\ fn \in {[op |-> "payload_lines", arg |-> [lines |-> l, warc_type |-> t], result |-> <<>>] :
               l \in SeqsUpTo(PayloadLines, MaxLines), t \in {"request", "response"}}

StripHeaders ==
  /\ fn.op = "payload_lines"
  /\ fn' = [op |-> "strip_http_headers", arg |-> fn.arg,
            result |-> strip_http_headers(JoinLines(fn.arg.lines), fn.arg.warc_type)]
  /\ UNCHANGED <<mainvars, decoder>>

NextStrip == StripHeaders
SpecStrip == InitStrip /\ [][NextStrip]_vars

\* headers_to_dict on a header block: the marker line and up to MaxHeaders
\* lines, a name occurring once or more, a line with or without a colon.
DictBlocks ==
  {<<VersionLine>> \o h :
     h \in SeqsUpTo({HeaderLine(n, v) : n \in HeaderNames, v \in HeaderValues}
                    \cup {HeaderLine(NoName, Junk)}, MaxHeaders)}

InitHeadersToDict ==
  /\ InitIdle
  /\ decoder = [parser |-> "none"]
  /\ fn \in {[op |-> "header_block", arg |-> h, raised |-> FALSE, result |-> <<>>] :
               h \in DictBlocks}

HeadersToDict ==
  /\ fn.op = "header_block"
  /\ fn' = IF headers_to_dict_asserts(fn.arg)
             THEN [op |-> "headers_to_dict", arg |-> fn.arg, raised |-> TRUE,
                   result |-> <<>>]
           ELSE [op |-> "headers_to_dict", arg |-> fn.arg, raised |-> FALSE,
                 result |-> headers_to_dict(fn.arg)]
  /\ UNCHANGED <<mainvars, decoder>>

NextHeadersToDict == HeadersToDict
SpecHeadersToDict == InitHeadersToDict /\ [][NextHeadersToDict]_vars

InitDecode ==
  /\ InitIdle
  /\ fn = [op |-> "none"]
  /\ decoder \in {NewParse(call) : call \in ParseCalls} \cup {NewParseWarc}

NextDecode ==
  \/ DecodeLine
  \/ DecodeEnd
  \/ ParseWarcLine
  \/ ParseWarcEnd
SpecDecode == InitDecode /\ [][NextDecode]_vars

\* -------------------------------------------------------------- retweever
\* Times are counted in ticks of half a second: limit.reset is a whole
\* number of seconds, time.time() is not.
TicksPerSecond == 2
\* The seconds added to the wait, line 123.
Margin == 2
Max(a, b) == IF a >= b THEN a ELSE b
\* int() of a number of ticks taken as seconds: truncation towards zero.
IntSeconds(ticks) ==
  IF ticks >= 0 THEN ticks \div TicksPerSecond ELSE -((-ticks) \div TicksPerSecond)
\* The margin added after the maximum is taken.
sleep_seconds_margin_after(reset, now) ==
  Max(IntSeconds(reset * TicksPerSecond - now), 0) + Margin
\* Line 123: max(int(limit.reset - time.time()) + 2, 0), with reset in
\* seconds and now in ticks.
sleep_seconds(reset, now) ==
  Max(IntSeconds(reset * TicksPerSecond - now) + Margin, 0)

\* _RequestUrl called with the rate limit of its endpoint at `remaining`
\* and `reset`, the clock at `now`.
InitSleep ==
  /\ InitIdle
  /\ decoder = [parser |-> "none"]
  /\ fn \in {[op |-> "request", remaining |-> n, reset |-> t, now |-> c, slept |-> 0] :
              n \in 0..1, t \in 0..MaxTime, c \in 0..(MaxTime * TicksPerSecond)}

\* Lines 118-125: the wait before the request is issued.
RequestUrl ==
  /\ fn.op = "request"
  /\ fn' = [fn EXCEPT !.op = "_RequestUrl",
                      !.slept = IF fn.remaining = 0 THEN sleep_seconds(fn.reset, fn.now)
                                ELSE 0]
  /\ UNCHANGED <<mainvars, decoder>>

NextSleep == RequestUrl
SpecSleep == InitSleep /\ [][NextSleep]_vars

\* ----------------------------------------------- extract_tweet on its own
\* Payloads with every combination of the keys 'user', 'status' and
\* 'screen_name', as a record's payload and as an API response.
ExtractPayloads ==
  {Payload(hu, hs, hsn, i, TRUE, <<"a">>, <<"a">>, r, None) :
     hu \in BOOLEAN, hs \in BOOLEAN, hsn \in BOOLEAN, i \in Ids, r \in OptIds}

InitExtract ==
  /\ InitIdle
  /\ decoder = [parser |-> "none"]
  /\ fn \in {[op |-> "entry", arg |-> p, datatype |-> t, result |-> EmptyTweet] :
              p \in ExtractPayloads, t \in {"json_str", "request"}}

ExtractTweet ==
  /\ fn.op = "entry"
  /\ fn' = [fn EXCEPT !.op = "extract_tweet",
                      !.result = extract_tweet(fn.arg, fn.datatype)]
  /\ UNCHANGED <<mainvars, decoder>>

NextExtract == ExtractTweet
SpecExtract == InitExtract /\ [][NextExtract]_vars

\* ------------------------------------------- get_conversation on its own
\* The tweets get_conversation is called with: a status with any links.
CallTweets ==
  {extract_tweet(StatusPayload(i, FALSE, <<"a">>, l[1], l[2]), "json_str") :
     i \in Ids, l \in AnyLinks}
\* The budgets it is called with: an integer, or None by default.
CallBudgets == {NoBudget} \cup 0..MaxLimit

\* get_conversation(tweet, api, use_original, remaining, done) called with
\* any arguments, `done` a dict of the caller when args.dedup.
InitCall ==
  /\ world = World("call", <<>>, 0)
  /\ args \in {[format |-> "human", parse_tweets |-> FALSE, dedup |-> d, limit |-> 0,
                no_warcinfo |-> FALSE] : d \in BOOLEAN}
  /\ pc = "walk"
  /\ file_num = 0
  /\ rec_num = 0
  /\ entry_num = 0
  /\ api_requests = 0
  /\ done \in (IF args.dedup THEN SUBSET Ids ELSE {{}})
  /\ \E tweet \in CallTweets, use_original \in BOOLEAN, remaining \in CallBudgets :
       /\ seed = [tweet |-> tweet, is_profile |-> FALSE, use_original |-> use_original]
       /\ walk = StartConversation(tweet, use_original, remaining, done)
  /\ output = <<>>
  /\ warnings = <<>>
  /\ fetched = [i \in Ids |-> 0]
  /\ written = 0
  /\ reused = {}
  /\ fn = [op |-> "none"]
  /\ decoder = [parser |-> "none"]

\* The loop is left (its condition at line 356, or a break) and the
\* conversation returned, line 406.
ReturnConversation ==
  /\ pc = "walk"
  /\ ~walk.running \/ walk.id = None
  /\ pc' = "returned"
  /\ UNCHANGED <<fn, decoder, reused, world, args, file_num, rec_num, entry_num, api_requests, done,
                 seed, walk, output, warnings, fetched, written>>

NextCall == WalkStep \/ ReturnConversation
\* Every fetch returns, and the loop goes on as long as it can.
SpecCall == InitCall /\ [][NextCall]_vars /\ WF_vars(NextCall)

Next ==
  \/ StartFile
  \/ EndOfInput
  \/ EndFile
  \/ ReadRecord
  \/ WalkStep
  \/ FinishRecord

Spec == Init /\ [][Next]_vars
SpecWalk == InitWalk /\ [][Next]_vars
SpecChain == InitChain /\ [][Next]_vars
SpecNoWarcinfo == InitNoWarcinfo /\ [][Next]_vars


\* ================================================================ claims
RECURSIVE SumOver(_, _)
SumOver(f, S) ==
  IF S = {} THEN 0
  ELSE LET x == CHOOSE y \in S : TRUE IN f[x] + SumOver(f, S \ {x})
\* The GetStatus calls of the run so far.
TotalFetched == SumOver(fetched, DOMAIN fetched)

NumFiles == Cardinality(Files)
Conversation == walk.conversation
\* The current record's conversation has been printed to its end.
Printed ==
  /\ pc \in {"record", "file", "done"}
  /\ output # <<>>
  /\ output[Len(output)].kind = "separator"
LimitWarnings == Cardinality({i \in 1..Len(warnings) : warnings[i].kind = "limit"})
Depth == Len(world.links) + 1
\* An exception of that kind has left main.
Raised(error) == \E k \in 1..Len(warnings) : warnings[k].kind = error
\* main was left by the exception of format_tweet_for_humans, not by one
\* raised while the record was read.
RenderCrash == pc = "crashed" /\ ~Raised("ValueError") /\ ~Raised("AssertionError")
CountName(headers, n) == Cardinality({i \in 1..Len(headers) : headers[i].name = n})
IsPrefix(h, r) == Len(h) <= Len(r) /\ SubSeq(r, 1, Len(h)) = h

\* C1: over a run with fetch limit L, the GetStatus calls never number more
\* than L, and the budget a walk holds is L less the calls made so far (one
\* less per call) and never negative.
C1_FetchesWithinLimit ==
  /\ TotalFetched <= args.limit
  /\ pc = "walk" => /\ walk.remaining >= 0
                    /\ walk.remaining = args.limit - TotalFetched
\* C1 witness: the second record's walk has used up the last of a limit of
\* at least two.
C1_Witness ==
  /\ pc = "walk" /\ entry_num = 2 /\ args.limit >= 2
  /\ walk.remaining = 0 /\ TotalFetched = args.limit /\ Len(Conversation) >= 1

\* C2 as stated: with dedup no id is fetched twice in a run, whatever the
\* fetch returned.
C2_Original == args.dedup => \A i \in DOMAIN fetched : fetched[i] <= 1
\* C2 amended: with dedup, an id in the cache (its fetch returned 200) is not
\* fetched again, and the walk that meets it ends there with no entry added.
C2_NoRefetchOfDone ==
  [][args.dedup =>
       /\ \A i \in done : fetched'[i] = fetched[i]
       /\ (pc = "walk" /\ walk.running /\ walk.id \in done) =>
            /\ walk'.conversation = walk.conversation
            /\ ~walk'.running]_vars
\* C2 witness: the second record's seed is to be fetched, its id is in the
\* cache from the first record, and the walk has ended empty.
C2_Witness ==
  /\ args.dedup /\ pc = "walk" /\ entry_num = 2
  /\ ~walk.running /\ walk.id \in done /\ Conversation = <<>>
  /\ fetched[walk.id] = 1

\* C3 as stated: on a chain whose fetches all succeed, with a budget of at
\* least the chain's length, the conversation has as many entries as the
\* chain has tweets, the seed reused or not, the links replies or retweets.
C3_Original ==
  (world.kind = "chain" /\ Printed /\ args.limit >= Depth) => Len(Conversation) = Depth

C5_Original ==
  (/\ RenderCrash \/ Printed
   /\ ~seed.use_original
   /\ Len(Conversation) >= 1
   /\ Conversation[1].response \notin {None, 200}) =>
     /\ pc # "crashed"
     /\ output[1].kind \in {"tweet", "original"}
     /\ output[1].text = seed.tweet.text

\* C6 as stated: a payload that has full_text is never found truncated.
C6_Original ==
  (fn.op = "looks_truncated" /\ fn.arg.has_full_text) => ~fn.result

\* C7 as stated: a payload without full_text is found truncated exactly when
\* its text ends with U+2026.
C7_Original ==
  (fn.op = "looks_truncated" /\ ~fn.arg.has_full_text) =>
     (fn.result <=> EndsWith(fn.arg.text, Ellipsis))
\* C7 amended: a payload without full_text is found truncated exactly when
\* its text contains U+2026, at any position.
C7_TruncatedIffContains ==
  (fn.op = "looks_truncated" /\ ~fn.arg.has_full_text) =>
     (fn.result <=> Contains(fn.arg.text, Ellipsis))
\* C7 witness: a text with U+2026 before its last character, found truncated.
C7_Witness ==
  /\ fn.op = "looks_truncated" /\ ~fn.arg.has_full_text
  /\ Contains(fn.arg.text, Ellipsis) /\ ~EndsWith(fn.arg.text, Ellipsis)
  /\ fn.result

\* C8: the fixed header block starts with the original block unchanged; a
\* block with no WARC-Record-ID gets exactly one, synthesized, as its last
\* line; a block that has one gets no other; a block that has a
\* WARC-Warcinfo-ID gets no other.
C8_HeaderFixKeepsHeaders ==
  fn.op = "warc_header_fix" =>
    LET h == fn.arg.headers
        r == fn.result
    IN /\ IsPrefix(h, r)
       /\ CountName(h, "WARC-Record-ID") = 0 =>
            /\ CountName(r, "WARC-Record-ID") = 1
            /\ r[Len(r)] = HeaderLine("WARC-Record-ID", Uuid4)
       /\ CountName(h, "WARC-Record-ID") > 0 =>
            CountName(r, "WARC-Record-ID") = CountName(h, "WARC-Record-ID")
       /\ CountName(h, "WARC-Warcinfo-ID") > 0 =>
            CountName(r, "WARC-Warcinfo-ID") = CountName(h, "WARC-Warcinfo-ID")
\* C8 witness: a block with one WARC-Record-ID and no WARC-Warcinfo-ID, fixed
\* with a warcinfo id and cross-reference data: lines were added, no record id.
C8_Witness ==
  /\ fn.op = "warc_header_fix"
  /\ CountName(fn.arg.headers, "WARC-Record-ID") = 1
  /\ CountName(fn.arg.headers, "WARC-Warcinfo-ID") = 0
  /\ fn.arg.warcinfo_id # "" /\ fn.arg.has_data
  /\ fn.arg.tweet_data.replied_by_id # None
  /\ Len(fn.result) > Len(fn.arg.headers)
  /\ CountName(fn.result, "WARC-Record-ID") = 1

\* C9 as stated: the budget reaching zero does not end the run; main returns
\* only from the top of the file loop, every file read to its end.
C9_Original ==
  [][pc' = "done" => (pc = "file" /\ file_num = NumFiles)]_vars
\* C9 amended: once a record is finished with api_requests at the limit,
\* main leaves both loops: no later record of any file is read and the run
\* ends normally.
C9_RunEndsAtLimit ==
  (entry_num > 0 /\ api_requests >= args.limit /\ pc \notin {"walk", "crashed"}) =>
     pc = "done"
\* C9 witness: the run has ended in its first file, on a limit that fetches
\* used up.
C9_Witness ==
  /\ pc = "done" /\ file_num < NumFiles
  /\ args.limit > 0 /\ api_requests = args.limit /\ TotalFetched = args.limit

\* C10 as stated: no failed fetch stops the run.
C10_Original ==
  RenderCrash =>
    \A k \in 1..Len(Conversation) : Conversation[k].response \in {None, 200}

\* ---------------------------------------------------------------- decoding
\* The string parse holds for the record it is reading, as it would hand it
\* to json.loads: the HTTP message of a request or response is stripped.
Pending ==
  IF decoder.warc_type \in {"request", "response"}
    THEN strip_http_headers(decoder.content, decoder.warc_type)
  ELSE decoder.content
\* parse decodes payloads as JSON.
JsonMode == decoder.parser = "warc_simple" /\ decoder.call.payload_json
LastLine(d) == d.lines[Len(d.lines)]
\* The step ends a record of parse that has content: the file is at its end
\* or a marker line was read outside a header block.
EndsRecord ==
  /\ decoder.parser = "warc_simple"
  /\ decoder.status = "running" /\ ~decoder.header
  /\ decoder.content # <<>>
  /\ \/ decoder'.lines = decoder.lines
     \/ LastLine(decoder') = Marker

\* C11 as stated: a payload that does not parse as JSON never stops the
\* decoding: the record is skipped and the parser goes on.
C11_Original ==
  (decoder.parser = "warc_simple" /\ decoder.headers # <<>>) =>
    ~(decoder.status = "raised" /\ decoder.error = "ValueError")
\* C11 amended: in JSON mode a record whose payload does not parse ends the
\* decoding with the ValueError of json.loads: the records yielded before it
\* stay yielded, that record is not yielded, and the parser takes no further
\* step, so that no later record of the stream is yielded.
C11_UnparseableStopsDecode ==
  [][decoder.parser = "warc_simple" =>
     /\ decoder.status = "running"
     /\ (JsonMode /\ EndsRecord /\ Pending # <<>> /\ ~ParsesAsJson(Pending)) =>
          /\ decoder'.status = "raised"
          /\ decoder'.error = "ValueError"
          /\ decoder'.out = decoder.out
     /\ (decoder'.status = "raised" /\ decoder'.error = "ValueError") =>
          (JsonMode /\ EndsRecord /\ ~ParsesAsJson(Pending))]_vars
\* C11 witness: parse in JSON mode has read a record with an unparseable
\* payload and then the marker line of the next record, and has raised.
C11_Witness ==
  /\ decoder.parser = "warc_simple" /\ decoder.call.payload_json
  /\ decoder.status = "raised" /\ decoder.error = "ValueError"
  /\ decoder.lines = <<Marker, Blank, Junk, Marker>>
  /\ decoder.out = <<>>

\* The first line of a payload that is not blank, if it has one.
NonBlank(lines) == {i \in 1..Len(lines) : lines[i] # Blank}
FirstNonBlank(lines) == CHOOSE i \in NonBlank(lines) : \A j \in NonBlank(lines) : i <= j

\* C12 as stated: when the first non-blank line of a request or response
\* payload does not match the HTTP heuristic, the string handed to the JSON
\* parser is the payload itself, no line removed.
C12_Original ==
  (/\ fn.op = "strip_http_headers"
   /\ NonBlank(fn.arg.lines) # {}
   /\ ~looks_like_http_header(<<fn.arg.lines[FirstNonBlank(fn.arg.lines)]>>,
                              fn.arg.warc_type)) =>
     fn.result = JoinLines(fn.arg.lines)

\* The payload a parser holds, after a header block, for the record it is
\* reading.
LastPayload ==
  IF decoder.parser = "parse_warc" THEN decoder.tweet_json ELSE decoder.content
AfterHeaders ==
  /\ ~decoder.header
  /\ \E i \in 1..Len(decoder.lines) : decoder.lines[i] = Marker

\* C13 as stated: when parse or parse_warc comes to the end of the stream, a
\* last record that has a payload is yielded as the final record, and a last
\* fragment that has none is dropped.
C13_Original ==
  [][(/\ decoder.parser \in {"warc_simple", "parse_warc"}
      /\ AfterHeaders
      /\ decoder.status = "running" /\ decoder'.status = "finished") =>
       IF LastPayload = <<>> THEN decoder'.out = decoder.out
       ELSE (decoder.parser = "parse_warc" => ParsesAsJson(LastPayload)) =>
              Len(decoder'.out) = Len(decoder.out) + 1]_vars

\* C18 as stated: in JSON mode parse yields one result for each record of
\* the stream, and for a record with no payload that result is the empty
\* object: the record is neither dropped nor an error.
C18_Original ==
  [][(/\ JsonMode
      /\ decoder.status = "running" /\ ~decoder.header
      /\ decoder.headers # <<>>
      /\ \/ decoder'.lines = decoder.lines
         \/ LastLine(decoder') = Marker) =>
       /\ Len(decoder'.out) = Len(decoder.out) + 1
       /\ decoder.content = <<>> =>
            decoder'.out[Len(decoder'.out)].payload.kind = "empty_object"]_vars

\* The values a header block gives a name, in the order of its lines.
ValuesOf(headers, n) ==
  LET named == SelectSeq(headers, LAMBDA line : line.name = n)
  IN [i \in 1..Len(named) |-> named[i].value]

\* C19 as stated: the mapping holds, for a name, all the values of its lines
\* put together in the order of the lines (a value of the mapping is then
\* the sequence of the values met).
C19_Original ==
  (fn.op = "headers_to_dict" /\ ~fn.raised) =>
    \A n \in DOMAIN fn.result : <<fn.result[n]>> = ValuesOf(fn.arg, n)
\* C19 amended: the mapping has one entry for each name of the block, and its
\* value is the value of the last line of that name: a value of an earlier
\* line of the name is replaced, not kept.
C19_LastValueKept ==
  (fn.op = "headers_to_dict" /\ ~fn.raised) =>
    /\ DOMAIN fn.result = {fn.arg[i].name : i \in 1..Len(fn.arg)}
    /\ \A n \in DOMAIN fn.result :
         LET values == ValuesOf(fn.arg, n)
         IN fn.result[n] = values[Len(values)]
\* C19 witness: a block with two lines of one name and different values,
\* mapped to the second value.
C19_Witness ==
  /\ fn.op = "headers_to_dict" /\ ~fn.raised
  /\ ValuesOf(fn.arg, "WARC-Type") = <<"v1", "v2">>
  /\ fn.result["WARC-Type"] = "v2"

\* ------------------------------------------------------------- main's run
\* C14 as stated: a header line with no colon stops the file it is in and
\* nothing else: the run goes on, and the files after it are processed.
C14_Original == Raised("AssertionError") => pc # "crashed"
\* C14 amended: a header line with no colon stops the run: the AssertionError
\* of headers_to_dict leaves main at that record, the records before it have
\* been written, and no later record or file is processed.
C14_MalformedHeaderStopsRun ==
  Raised("AssertionError") =>
    /\ pc = "crashed"
    /\ written = entry_num - 1
    /\ output = <<>>
\* C14 witness: the second record of the first file has a header line with
\* no colon: the run has stopped there, the second file not started.
C14_Witness ==
  /\ Raised("AssertionError") /\ pc = "crashed"
  /\ file_num = 1 /\ file_num < NumFiles
  /\ entry_num = 2 /\ written = 1

\* C16 as stated: in record mode with --no-warcinfo no warcinfo record is
\* written.
C16_Original ==
  (args.no_warcinfo /\ args.format = "warc") =>
    \A k \in 1..Len(output) : output[k].kind # "warcinfo"

\* C17 as stated: a parse-only run makes no fetch and stops reading records
\* only at the end of its input, so that every record is written, once and
\* in the order read.
C17_Original ==
  [][args.parse_tweets =>
       /\ fetched' = fetched
       /\ pc' = "done" => pc = "file"
       /\ (pc = "record" /\ pc' \in {"record", "done"}) => written' = written + 1]_vars

\* The fetches the walk of the current record has made.
WalkFetches == TotalFetched - api_requests
C20_CacheThenBudgetThenFetch ==
  [][(pc = "walk" /\ walk.running /\ walk.id # None) =>
       IF walk.id \in walk.done
         THEN /\ fetched' = fetched
              /\ walk'.conversation = walk.conversation
              /\ warnings' = warnings
              /\ ~walk'.running
       ELSE IF walk.remaining = 0
         THEN /\ fetched' = fetched
              /\ walk'.conversation = walk.conversation
              /\ warnings' = Append(warnings, [kind |-> "limit", id |-> walk.id])
              /\ ~walk'.running
       ELSE /\ fetched' = [fetched EXCEPT ![walk.id] = @ + 1]
            /\ Len(walk'.conversation) = Len(walk.conversation) + 1
            /\ walk'.remaining = walk.remaining - 1]_vars
\* C20 witness: the walk has ended on an id of the cache with no budget
\* left, and no limit warning was logged.
C20_Witness ==
  /\ pc = "walk" /\ args.dedup /\ ~walk.running
  /\ walk.id \in walk.done /\ walk.remaining = 0
  /\ Len(Conversation) >= 1 /\ LimitWarnings = 0

\* ---------------------------------------------------------- the walk's links
\* The last entry of the conversation so far.
LastEntry == Conversation[Len(Conversation)]
\* C21 as stated: after every entry with an item, the reused seed included,
\* the next id to resolve is the item's reply target if it has one, else its
\* retweet target if it has one, and there is no next id only when it has
\* neither.
C21_Original ==
  (pc = "walk" /\ Len(Conversation) >= 1 /\ LastEntry.tweet.keys # {}) =>
    walk.id = NextId(LastEntry.tweet)

\* Whether entry k carries no back-link, and whether it carries the
\* back-link to the entry before it, by the link that entry was left on.
NoBackLink(e) ==
  /\ e.replied_by_id = None /\ e.replied_by_user = None
  /\ e.retweeted_by_id = None /\ e.retweeted_by_user = None
BackLinkTo(e, prev) ==
  IF prev.tweet.in_reply_to_id # None
    THEN e.replied_by_id = prev.id /\ e.replied_by_user = prev.tweet.user
  ELSE e.retweeted_by_id = prev.id /\ e.retweeted_by_user = prev.tweet.user
\* C22 as stated: the first entry of a conversation has no back-link, and
\* every later entry has the back-link to the entry before it (its id and
\* its author), a reused seed included.
C22_Original ==
  pc = "walk" =>
    \A k \in 1..Len(Conversation) :
      IF k = 1 THEN NoBackLink(Conversation[k])
      ELSE BackLinkTo(Conversation[k], Conversation[k - 1])

\* Whether the entry's fetch failed: a response with a non-success status
\* or with no item in it.
FetchFailed(e) == e.response # None /\ (e.response # 200 \/ e.tweet.keys = {})
\* C23: an entry whose fetch failed is the last of its conversation and the
\* walk has stopped on it, and every entry has a remote response or is the
\* reused seed, at the head, with the seed's data.
C23_FailedFetchIsLast ==
  pc = "walk" =>
    \A k \in 1..Len(Conversation) :
      /\ FetchFailed(Conversation[k]) => (k = Len(Conversation) /\ ~walk.running)
      /\ Conversation[k].response = None =>
           (k = 1 /\ seed.use_original /\ Conversation[k].tweet = seed.tweet
                  /\ seed.tweet.keys # {})
\* C23 witness: behind a reused seed a fetch has failed, and the walk has
\* stopped on it with budget left and nothing in the cache.
C23_Witness ==
  /\ pc = "walk" /\ Len(Conversation) = 2 /\ ~walk.running
  /\ Conversation[1].response = None
  /\ Conversation[2].response = 404
  /\ walk.remaining > 0 /\ walk.done = {}

\* ------------------------------------------------------ what main writes
\* Whether the records of out from position pos on are those of the
\* entries of the conversation from entry k on, up to the separator: a
\* request record and the response record it names for an entry with a
\* response, the original record for an entry without one.
RECURSIVE EmittedFrom(_, _, _, _)
EmittedFrom(out, pos, conversation, k) ==
  IF k > Len(conversation) THEN pos = Len(out)
  ELSE IF conversation[k].response = None
    THEN /\ pos < Len(out)
         /\ out[pos].kind = "original"
         /\ EmittedFrom(out, pos + 1, conversation, k + 1)
  ELSE /\ pos + 1 < Len(out)
       /\ out[pos].kind = "request" /\ out[pos].id = conversation[k].id
       /\ out[pos + 1].kind = "response" /\ out[pos + 1].id = conversation[k].id
       /\ out[pos].concurrent_to = out[pos + 1].record_id
       /\ EmittedFrom(out, pos + 2, conversation, k + 1)
\* C24 as stated: in record mode the records written for a conversation
\* are, entry by entry, a request record followed by the response record it
\* references for every entry with a remote response, and the original
\* record for the entries without one, the seed reused or not.
C24_Original ==
  (args.format = "warc" /\ Printed) => EmittedFrom(output, 1, Conversation, 1)

\* The entries of the conversation that have the seed's id.
SeedEntries == {k \in 1..Len(Conversation) : Conversation[k].id = seed.tweet.id}
\* C25 as stated: whatever the links, the seed's id is the id of at most one
\* entry of its conversation.
C25_Original == pc = "walk" => Cardinality(SeedEntries) <= 1

\* ------------------------------------------------- the walk on its own
\* C26 as stated: whatever the links, the cache and the budget, no budget
\* included, the walk ends and returns its conversation.
C26_Original == <>(pc = "returned")

\* ------------------------------------------------------- what main logs
\* Whether a warning with the entry's error code has been logged.
ErrorLogged(e) ==
  \E k \in 1..Len(warnings) :
    /\ warnings[k].kind = "api_error"
    /\ warnings[k].id = e.id
    /\ warnings[k].status_code = e.response
\* C27 as stated: once main is through with a conversation, every entry of
\* it whose fetch returned a non-success status has a warning with its
\* error code in the log, in both output modes, wherever the entry is, the
\* seed reused or not.
C27_Original ==
  (Printed \/ RenderCrash) =>
    \A k \in 1..Len(Conversation) :
      Conversation[k].response \notin {None, 200} => ErrorLogged(Conversation[k])

\* ------------------------------------------------------- classification
\* C28 as stated: a payload with a 'user' key gives its own status as the
\* item, not a profile, whatever else it has; a payload without one and
\* with a 'status' key gives the inner status as the item, a profile; any
\* other payload gives no item.
C28_Original ==
  fn.op = "extract_tweet" =>
    IF fn.arg.has_user
      THEN fn.result.keys # {} /\ ~fn.result.is_profile
    ELSE IF fn.arg.has_status
      THEN fn.result.keys # {} /\ fn.result.is_profile
    ELSE fn.result = EmptyTweet

\* ---------------------------------------------------------- the rate limit
\* The request was made with no requests remaining, reset - now a whole
\* number of seconds.
SleptOnLimit ==
  /\ fn.op = "_RequestUrl" /\ fn.remaining = 0
  /\ fn.now % TicksPerSecond = 0
\* reset - now, in seconds, when it is a whole number of them.
UntilReset == fn.reset - fn.now \div TicksPerSecond
\* C29 as stated: with no requests remaining the wait is
\* max(reset - now, 0) plus the margin, for every integer reset - now.
C29_Original == SleptOnLimit => fn.slept = Max(UntilReset, 0) + Margin
\* C29 amended: with no requests remaining the wait is
\* max(reset - now + margin, 0): reset - now plus the margin when that is
\* positive, and nothing once the reset time is the margin or more in the
\* past.
C29_MarginInsideMax ==
  SleptOnLimit =>
    /\ fn.slept = Max(UntilReset + Margin, 0)
    /\ UntilReset <= -Margin => fn.slept = 0
    /\ UntilReset < 0 => fn.slept < Margin
\* C29 witness: the reset time is more than the margin in the past, and the
\* request is issued without a wait.
C29_Witness == SleptOnLimit /\ UntilReset < -Margin /\ fn.slept = 0

\* --------------------------------------------------------- marker lines
\* parse has just read a marker line.
ReadsMarker ==
  /\ decoder.parser = "warc_simple" /\ decoder.status = "running"
  /\ Len(decoder'.lines) = Len(decoder.lines) + 1
  /\ LastLine(decoder') = Marker
\* The step has opened a record: its header block is the marker line alone
\* and it has no payload.
OpenedRecord ==
  /\ decoder'.header
  /\ decoder'.headers = <<Marker>>
  /\ decoder'.content = <<>>
\* C30 as stated: every marker line parse reads opens a new record, one
\* read inside a header block that no blank line has ended included.
C30_Original ==
  [][(ReadsMarker /\ decoder'.status = "running") => OpenedRecord]_vars
\* C30 amended: a marker line read outside a header block opens a new
\* record, the record before it yielded if it has a payload (or the
\* decoding ended by its payload's error); a marker line read inside a
\* header block that no blank line has ended is taken as one more header
\* line of that record: no record is opened and nothing is yielded.
C30_MarkerOpensRecordOutsideHeaders ==
  [][ReadsMarker =>
       IF decoder.header
         THEN /\ decoder'.header
              /\ decoder'.headers = Append(decoder.headers, Marker)
              /\ decoder'.content = decoder.content
              /\ decoder'.out = decoder.out
              /\ decoder'.status = "running"
       ELSE \/ /\ decoder'.status = "running"
               /\ OpenedRecord
               /\ Len(decoder'.out) =
                    Len(decoder.out) + (IF decoder.content # <<>> THEN 1 ELSE 0)
            \/ /\ decoder'.status = "raised"
               /\ decoder.content # <<>>
               /\ decoder'.out = decoder.out]_vars
\* C30 witness: a marker line was read after a header line, and then a
\* payload: parse has one record, the second marker line among its headers.
C30_Witness ==
  /\ decoder.parser = "warc_simple"
  /\ decoder.lines = <<Marker, TypeResponse, Marker, Blank, Json>>
  /\ decoder.headers = <<Marker, TypeResponse, Marker>>
  /\ decoder.content = LineStr(Json)
  /\ decoder.out = <<>>

\* ------------------------------------------------- header lines, decoded
\* The lines of the input with no colon, the marker line apart.
ColonlessLines == {Junk, HttpStatus, HttpRequest}
HasColonlessLine(headers) == \E i \in 1..Len(headers) : headers[i] \in ColonlessLines
\* The step yields a record.
YieldsRecord == Len(decoder'.out) = Len(decoder.out) + 1
\* C31 as stated: whatever the form the headers are returned in, parse never
\* yields a record whose header block has a line with no colon.
C31_Original ==
  [][(decoder.parser = "warc_simple" /\ YieldsRecord) =>
       ~HasColonlessLine(decoder.headers)]_vars
\* C31 amended: a header line with no colon stops the decoding, with the
\* AssertionError of headers_to_dict, only when the headers are returned as
\* a mapping, and then when its record (one with a payload, which parses if
\* it is to be parsed) is about to be yielded; with the headers returned as
\* a string or omitted the record is yielded, the line among its headers.
C31_ColonlessHeaderFatalForMapping ==
  [][(EndsRecord /\ HasColonlessLine(decoder.headers)
        /\ (JsonMode => (Pending = <<>> \/ ParsesAsJson(Pending)))) =>
       IF decoder.call.header_dict /\ ~decoder.call.omit_headers
         THEN /\ decoder'.status = "raised"
              /\ decoder'.error = "AssertionError"
              /\ decoder'.out = decoder.out
       ELSE /\ YieldsRecord
            /\ LET r == decoder'.out[Len(decoder'.out)] IN
                 r.headers = "str" =>
                   \E i \in 1..Len(r.lines) : r.lines[i].name = NoName]_vars
\* C31 witness: parse, returning headers as a mapping, has read a record
\* with a header line without a colon and a JSON payload, to the end of the
\* file, and has raised.
C31_Witness ==
  /\ decoder.parser = "warc_simple"
  /\ decoder.call.header_dict /\ ~decoder.call.omit_headers
  /\ decoder.lines = <<Marker, Junk, Blank, Json>>
  /\ decoder.status = "raised" /\ decoder.error = "AssertionError"
  /\ decoder.out = <<>>

\* ------------------------------------------------------- the dedup cache
\* The ids this walk has fetched with success.
FetchedHere == {Conversation[k].id : k \in {j \in 1..Len(Conversation) :
                                            Conversation[j].response = 200}}
\* The walk was stopped on an id of its cache (and not by a failed fetch of
\* that id, which leaves it the current id too).
StoppedOnCache ==
  /\ pc = "walk" /\ ~walk.running
  /\ walk.id # None /\ walk.id \in walk.done
  /\ ~(Len(Conversation) >= 1 /\ FetchFailed(LastEntry))
\* C32 as stated: without dedup the cache of the run stays empty and no walk
\* is stopped because an id was seen before.
C32_Original == ~args.dedup => (done = {} /\ ~StoppedOnCache)
\* C32 amended: without dedup the cache of the run stays empty and a walk
\* starts with an empty cache of its own, which holds the ids this walk has
\* fetched with success: an id seen by an earlier walk is fetched again, and
\* a walk is stopped on a seen id only if it has itself fetched that id.
C32_NoRunWideCacheWithoutDedup ==
  ~args.dedup =>
    /\ done = {}
    /\ pc = "walk" => walk.done = FetchedHere
    /\ StoppedOnCache => walk.id \in FetchedHere
\* C32 witness: without dedup the walk of the second record has fetched,
\* with success, an id that the walk of the first record had fetched.
C32_Witness ==
  /\ ~args.dedup /\ pc = "walk" /\ entry_num = 2 /\ done = {}
  /\ \E i \in FetchedHere : fetched[i] = 2

\* --------------------------------------------------- the request counter
\* C33: between records the run's request counter is the number of fetches
\* made so far, and during a walk the fetches not yet counted are the
\* entries of the conversation, less the seed's when it was reused; an empty
\* conversation adds nothing.
C33_CounterIsFetches ==
  /\ pc # "walk" => api_requests = TotalFetched
  /\ pc = "walk" =>
       TotalFetched = api_requests + Len(Conversation)
                        - (IF seed.use_original THEN 1 ELSE 0)
\* C33 witness: two records are processed, the first with a fetch, the
\* second with an empty conversation, and the counter is still one.
C33_Witness ==
  /\ pc \in {"record", "file", "done"} /\ entry_num = 2 /\ written = 2
  /\ ~args.parse_tweets /\ seed.tweet.keys # {} /\ ~seed.use_original
  /\ Conversation = <<>>
  /\ api_requests = 1 /\ TotalFetched = 1

\* ---------------------------------------------- reused seeds and the cache
\* C34 as stated: with dedup, an id that was written as the entry of a
\* reused seed is not fetched afterwards in the run.
C34_Original ==
  [][args.dedup => \A i \in reused : fetched'[i] = fetched[i]]_vars

\* ------------------------------------------------- the default budget
\* C35 as stated: a walk called with remaining left at None treats the
\* budget as unlimited and does not raise.
C35_Original == walk.remaining = NoBudget => ~Raised("TypeError")

\* ------------------------------------------- lines before the first marker
\* C36 as stated: every record that parse yields has a header block that
\* begins with a marker line, so the lines read before the first marker
\* line are not yielded as a record.
C36_Original ==
  [][(decoder.parser = "warc_simple" /\ YieldsRecord) =>
       (decoder.headers # <<>> /\ decoder.headers[1] = Marker)]_vars

====
